---- MODULE Spec2Model ----
(***************************************************************************)
(* Model of the ModelGuard mesh validation pipeline                        *)
(* (backend/validator.py, backend/models.py).                              *)
(*                                                                         *)
(* Lengths are integers in units of 1e-7 mm, so that the thresholds of the *)
(* checks (1e-6 mm, 1e-10 mm^2, 0.5 mm) are all integers.  A coordinate is *)
(* split as hi * Coarse + lo with Coarse = 10^6 units (0.1 mm) wherever a  *)
(* product would leave the range of the model checker's integers; the      *)
(* comparisons made on the split values are exact for the grid used here   *)
(* (|hi| <= 200, |lo| <= 20).                                              *)
(*                                                                         *)
(* Python exceptions are modelled by records [raised, msg, val]: a stage   *)
(* either raises (msg = str(e)) or returns val.  Optional values (None)    *)
(* are sequences of length 0 or 1.  Strings built by f-strings are         *)
(* sequences of string pieces.  Indices are 1-based: face index i stands   *)
(* for Python index i - 1.                                                  *)
(***************************************************************************)
EXTENDS Integers, Sequences, FiniteSets, TLC

VARIABLES
    file,       \* what trimesh.load yields for the uploaded bytes
    env,        \* per-run behaviour of the geometry library: faults, samples
    result,     \* what validate_mesh returned: val is the ValidationReport
    pc,         \* "idle" before the run, "done" after it
    dErrors,    \* argument errors of a direct _determine_decision call
    dWarnings,  \* argument warnings of a direct _determine_decision call
    dDecision,  \* result of that call
    validator,        \* main.py: the shared MeshValidator, by its attributes
    reports_storage,  \* main.py: the report store, model_id -> report
    tmp_files,        \* the temporary files that exist
    tasks,            \* the request each server task is handling
    returned,         \* history: the reports /validate has returned, in order
    deleted           \* history: the ids DELETE /report/{id} has removed

coreVars == <<file, env, result, pc, dErrors, dWarnings, dDecision>>

serverVars ==
    <<validator, reports_storage, tmp_files, tasks, returned, deleted>>

vars == <<coreVars, serverVars>>

----------------------------------------------------------------------------
(* Bounds of the model *)

MaxVerts == 3
MaxFaces == 1
MaxComponents == 2
MaxSamples == 1
MaxIssues == 2
MaxSceneGeometries == 2
MaxProbeSamples == 11
MaxSliverFaces == 2
MaxRuns == 2

----------------------------------------------------------------------------
(* Values *)

None == <<>>
Some(x) == <<x>>

Coarse == 1000 * 1000
Mm == 10 * Coarse

SeqsUpTo(S, n) == UNION {[1..k -> S] : k \in 0..n}

Max2(a, b) == IF a >= b THEN a ELSE b
Min2(a, b) == IF a <= b THEN a ELSE b

RECURSIVE SetMax(_)
SetMax(S) ==
    LET x == CHOOSE y \in S : TRUE
    IN  IF S = {x} THEN x ELSE Max2(x, SetMax(S \ {x}))

RECURSIVE SetMin(_)
SetMin(S) ==
    LET x == CHOOSE y \in S : TRUE
    IN  IF S = {x} THEN x ELSE Min2(x, SetMin(S \ {x}))

(* hi/lo split of a length, lo in -Coarse/2 .. Coarse/2 - 1 *)
Hi(d) == (d + Coarse \div 2) \div Coarse
Lo(d) == d - Hi(d) * Coarse

Sub(p, q) == <<p[1] - q[1], p[2] - q[2], p[3] - q[3]>>

LexLess(a, b) ==
    \/ a[1] < b[1]
    \/ a[1] = b[1] /\ a[2] < b[2]
    \/ a[1] = b[1] /\ a[2] = b[2] /\ a[3] < b[3]

(* |d|^2 as <<A, B, C>> standing for A*Coarse^2 + B*Coarse + C *)
NormSq(d) ==
    <<Hi(d[1]) * Hi(d[1]) + Hi(d[2]) * Hi(d[2]) + Hi(d[3]) * Hi(d[3]),
      2 * (Hi(d[1]) * Lo(d[1]) + Hi(d[2]) * Lo(d[2]) + Hi(d[3]) * Lo(d[3])),
      Lo(d[1]) * Lo(d[1]) + Lo(d[2]) * Lo(d[2]) + Lo(d[3]) * Lo(d[3])>>

(* np.linalg.norm(d) < t *)
NormLess(d, t) == LexLess(NormSq(d), NormSq(<<t, 0, 0>>))

----------------------------------------------------------------------------
(* backend/models.py *)

ALLOW == "ALLOW"
ALLOW_WITH_WARNINGS == "ALLOW_WITH_WARNINGS"
BLOCK == "BLOCK"

ValidationStatus == {ALLOW, ALLOW_WITH_WARNINGS, BLOCK}

ErrorCode ==
    {"NOT_WATERTIGHT", "NON_MANIFOLD", "SELF_INTERSECTING", "THIN_WALL",
     "DEGENERATE_FACES", "DUPLICATE_VERTICES", "INVERTED_NORMALS",
     "MULTIPLE_COMPONENTS"}

Severity == {"error", "warning"}

(* the default of ValidationIssue.severity *)
DefaultSeverity == "error"

(* ValidationIssue(code=..., message=..., count=...): severity and         *)
(* locations are never passed by the validator and take their defaults     *)
ValidationIssue(code, message, count) ==
    [code |-> code, message |-> message, severity |-> DefaultSeverity,
     count |-> count, locations |-> None]

MeshMetrics(triangles, vertices, components, bbox_mm, volume_mm3, surface_area_mm2) ==
    [triangles |-> triangles, vertices |-> vertices,
     components |-> components, bbox_mm |-> bbox_mm,
     volume_mm3 |-> volume_mm3, surface_area_mm2 |-> surface_area_mm2,
     units |-> "mm"]

(* processing_time_ms and timestamp are wall-clock readings and are left   *)
(* out of the record                                                       *)
ValidationReport(model_id, filename, metrics, errors, warnings, decision) ==
    [model_id |-> model_id, filename |-> filename, metrics |-> metrics,
     errors |-> errors, warnings |-> warnings, decision |-> decision]

----------------------------------------------------------------------------
(* Results of a stage: returned value or raised exception *)

Return(v) == [raised |-> FALSE, msg |-> <<>>, val |-> v]
Raise(m) == [raised |-> TRUE, msg |-> m, val |-> <<>>]

----------------------------------------------------------------------------
(* MeshValidator configuration (validator.py, __init__) *)

thin_wall_threshold == 5 * Coarse

(* 1.0, on the scale of the meshes' volume field *)
min_volume_threshold == Mm
max_file_size_mb == 100

(* MeshValidator(): the attributes __init__ sets *)
MeshValidator ==
    [thin_wall_threshold |-> thin_wall_threshold,
     min_volume_threshold |-> min_volume_threshold,
     max_file_size_mb |-> max_file_size_mb]

(* thresholds written in the checks *)
DuplicateDistance == 10
BoundsExtentMin == 10
DegenerateCrossSq == 400000000
SampleProbe == 10

----------------------------------------------------------------------------
(* The geometry library (trimesh) as seen by the validator.  A mesh object *)
(* carries its arrays and the answers the library gives for it; env.faults *)
(* names the library calls that raise during this run.                     *)

MetricFaults ==
    {"m_bounds", "m_is_watertight", "m_volume", "m_surface_area", "m_split"}

CheckFaults ==
    {"c_is_watertight", "c_is_winding_consistent", "c_bounds", "c_split",
     "c_sample"}

Fails(e, site) == site \in e.faults

(* vertices used by some face; an index outside the array is an IndexError *)
IndicesInRange(mesh) ==
    \A i \in 1..Len(mesh.faces) :
        \A k \in 1..3 : mesh.faces[i][k] \in 1..Len(mesh.vertices)

Referenced(mesh) ==
    {mesh.faces[i][k] : i \in 1..Len(mesh.faces), k \in 1..3}

(* mesh.bounds taken over every vertex of the array, referenced or not *)
BoundsOfArray(mesh) ==
    IF ~IndicesInRange(mesh) THEN Raise(<<"index out of bounds">>)
    ELSE IF Referenced(mesh) = {} THEN Return(None)
    ELSE LET Axis(k) == {mesh.vertices[i][k] : i \in 1..Len(mesh.vertices)}
         IN  Return(Some(<<
                 <<SetMin(Axis(1)), SetMin(Axis(2)), SetMin(Axis(3))>>,
                 <<SetMax(Axis(1)), SetMax(Axis(2)), SetMax(Axis(3))>> >>))

(* mesh.bounds: [min corner, max corner] over the referenced vertices,     *)
(* None when there are none                                                *)
Bounds(mesh) ==
    IF ~IndicesInRange(mesh) THEN Raise(<<"index out of bounds">>)
    ELSE IF Referenced(mesh) = {} THEN Return(None)
    ELSE LET Axis(k) == {mesh.vertices[i][k] : i \in Referenced(mesh)}
         IN  Return(Some(<<
                 <<SetMin(Axis(1)), SetMin(Axis(2)), SetMin(Axis(3))>>,
                 <<SetMax(Axis(1)), SetMax(Axis(2)), SetMax(Axis(3))>> >>))

----------------------------------------------------------------------------
(* validator.py: helpers of the Check Engine *)

(* one component of np.cross(a, b), as <<P2, P1, P0>> standing for         *)
(* P2*Coarse^2 + P1*Coarse + P0                                            *)
CrossComp(a, b, i, j) ==
    <<Hi(a[i]) * Hi(b[j]) - Hi(a[j]) * Hi(b[i]),
      Hi(a[i]) * Lo(b[j]) + Lo(a[i]) * Hi(b[j])
        - Hi(a[j]) * Lo(b[i]) - Lo(a[j]) * Hi(b[i]),
      Lo(a[i]) * Lo(b[j]) - Lo(a[j]) * Lo(b[i])>>

(* the area test with == 0 in place of < 1e-10 *)
AreaIsZero(v0, v1, v2) ==
    LET a == Sub(v1, v0)
        b == Sub(v2, v0)
        c == <<CrossComp(a, b, 2, 3), CrossComp(a, b, 3, 1),
               CrossComp(a, b, 1, 2)>>
    IN  \A k \in 1..3 : c[k] = <<0, 0, 0>>

(* 0.5 * np.linalg.norm(np.cross(v1 - v0, v2 - v0)) < 1e-10 *)
AreaBelowThreshold(v0, v1, v2) ==
    LET a == Sub(v1, v0)
        b == Sub(v2, v0)
        c == <<CrossComp(a, b, 2, 3), CrossComp(a, b, 3, 1),
               CrossComp(a, b, 1, 2)>>
    IN  /\ \A k \in 1..3 : c[k][1] = 0 /\ c[k][2] = 0
        /\ c[1][3] * c[1][3] + c[2][3] * c[2][3] + c[3][3] * c[3][3]
             < DegenerateCrossSq

Indices(n) == [i \in 1..n |-> i]

_find_degenerate_faces(mesh) ==
    IF ~IndicesInRange(mesh) THEN Raise(<<"index out of bounds">>)
    ELSE LET Degenerate(i) ==
                 AreaBelowThreshold(mesh.vertices[mesh.faces[i][1]],
                                    mesh.vertices[mesh.faces[i][2]],
                                    mesh.vertices[mesh.faces[i][3]])
         IN  Return(SelectSeq(Indices(Len(mesh.faces)), Degenerate))

(* _find_duplicate_vertices without the break: one entry per close pair *)
_find_duplicate_vertices_pairs(mesh) ==
    LET vertices == mesh.vertices
        Twins(i) ==
            {j \in (i + 1)..Len(vertices) :
                NormLess(Sub(vertices[i], vertices[j]), DuplicateDistance)}
        n == Cardinality(UNION {{<<i, j>> : j \in Twins(i)} :
                                   i \in 1..Len(vertices)})
    IN  [k \in 1..n |-> k]

_find_duplicate_vertices(mesh) ==
    LET vertices == mesh.vertices
        HasLaterTwin(i) ==
            \E j \in (i + 1)..Len(vertices) :
                NormLess(Sub(vertices[i], vertices[j]), DuplicateDistance)
    IN  SelectSeq(Indices(Len(vertices)), HasLaterTwin)

(* np.argmin over the distances from point to every vertex *)
Nearest(mesh, point) ==
    CHOOSE i \in 1..Len(mesh.vertices) :
        /\ \A j \in 1..Len(mesh.vertices) :
               ~LexLess(NormSq(Sub(mesh.vertices[j], point)),
                        NormSq(Sub(mesh.vertices[i], point)))
        /\ \A j \in 1..(i - 1) :
               LexLess(NormSq(Sub(mesh.vertices[i], point)),
                       NormSq(Sub(mesh.vertices[j], point)))

(* _detect_thin_walls looking at every sampled point, not the first 10 *)
_detect_thin_walls_all(mesh, e) ==
    IF Fails(e, "c_sample") THEN <<>>
    ELSE IF Len(e.samples) > 0 /\ Len(mesh.vertices) = 0 THEN <<>>
    ELSE LET surface_points == e.samples
             probed == surface_points
             Thin(point) ==
                 NormLess(Sub(mesh.vertices[Nearest(mesh, point)], point),
                          thin_wall_threshold)
             Region(point) ==
                 [point |-> point,
                  thickness |->
                      NormSq(Sub(mesh.vertices[Nearest(mesh, point)], point)),
                  location |-> "surface"]
             thin == SelectSeq(probed, Thin)
         IN  [i \in 1..Len(thin) |-> Region(thin[i])]

(* the whole body is inside try/except: a raising sampler, or np.argmin    *)
(* over an empty vertex array, leaves the list empty                       *)
_detect_thin_walls(mesh, e) ==
    IF Fails(e, "c_sample") THEN <<>>
    ELSE IF Len(e.samples) > 0 /\ Len(mesh.vertices) = 0 THEN <<>>
    ELSE LET surface_points == e.samples
             probed == SubSeq(surface_points, 1,
                              Min2(SampleProbe, Len(surface_points)))
             Thin(point) ==
                 NormLess(Sub(mesh.vertices[Nearest(mesh, point)], point),
                          thin_wall_threshold)
             Region(point) ==
                 [point |-> point,
                  thickness |->
                      NormSq(Sub(mesh.vertices[Nearest(mesh, point)], point)),
                  location |-> "surface"]
             thin == SelectSeq(probed, Thin)
         IN  [i \in 1..Len(thin) |-> Region(thin[i])]

(* blocks on any non-empty errors list, whatever the severities *)
_determine_decision_any(errors, warnings) ==
    IF errors # <<>> THEN BLOCK
    ELSE IF warnings # <<>> THEN ALLOW_WITH_WARNINGS
    ELSE ALLOW

_determine_decision(errors, warnings) ==
    IF \E i \in 1..Len(errors) : errors[i].severity = "error" THEN BLOCK
    ELSE IF warnings # <<>> THEN ALLOW_WITH_WARNINGS
    ELSE ALLOW

----------------------------------------------------------------------------
(* validator.py: the stages of the pipeline *)

(* max(geometries, key=lambda x: len(x.vertices)): the first of the        *)
(* geometries with the most vertices                                       *)
Largest(geometries) ==
    LET i == CHOOSE k \in 1..Len(geometries) :
                 /\ \A j \in 1..Len(geometries) :
                        Len(geometries[j].vertices)
                            <= Len(geometries[k].vertices)
                 /\ \A j \in 1..(k - 1) :
                        Len(geometries[j].vertices)
                            < Len(geometries[k].vertices)
    IN  geometries[i]

HasVertices(g) == g.has_vertices

(* _load_mesh without the test for an empty vertex array *)
_load_mesh_accepts_empty(f) ==
    LET Wrap(m) == Raise(<<"Failed to load mesh: ">> \o m)
        geometries == SelectSeq(f.geometry, HasVertices)
        mesh == IF f.load = "scene" THEN Largest(geometries)
                ELSE f.geometry[1]
    IN  IF f.load = "raise" THEN Wrap(f.msg)
        ELSE IF f.load = "scene" /\ geometries = <<>>
            THEN Wrap(<<"No valid meshes found in scene">>)
        ELSE IF ~mesh.has_vertices
            THEN Wrap(<<"Empty or invalid mesh">>)
        ELSE Return(mesh)

_load_mesh(f) ==
    LET Wrap(m) == Raise(<<"Failed to load mesh: ">> \o m)
        geometries == SelectSeq(f.geometry, HasVertices)
        mesh == IF f.load = "scene" THEN Largest(geometries)
                ELSE f.geometry[1]
    IN  IF f.load = "raise" THEN Wrap(f.msg)
        ELSE IF f.load = "scene" /\ geometries = <<>>
            THEN Wrap(<<"No valid meshes found in scene">>)
        ELSE IF ~mesh.has_vertices \/ Len(mesh.vertices) = 0
            THEN Wrap(<<"Empty or invalid mesh">>)
        ELSE Return(mesh)

(* the fallback with the counts zeroed as well *)
FallbackMetricsZeroed(mesh) ==
    MeshMetrics(0, 0, 1, <<0, 0, 0>>, None, None)

FallbackMetrics(mesh) ==
    MeshMetrics(IF mesh.has_faces THEN Len(mesh.faces) ELSE 0,
                IF mesh.has_vertices THEN Len(mesh.vertices) ELSE 0,
                1, <<0, 0, 0>>, None, None)

(* some statement of the try block of _compute_metrics raises *)
MetricsFails(mesh, e) ==
    \/ ~mesh.has_faces
    \/ Fails(e, "m_bounds") \/ Bounds(mesh).raised \/ Bounds(mesh).val = None
    \/ Fails(e, "m_is_watertight")
    \/ mesh.is_watertight /\ Fails(e, "m_volume")
    \/ Fails(e, "m_surface_area")
    \/ Fails(e, "m_split")

(* _compute_metrics reading mesh.volume whether or not the mesh is closed *)
_compute_metrics_open_volume(mesh, e) ==
    LET bbox == Bounds(mesh)
        bbox_size == Sub(bbox.val[1][2], bbox.val[1][1])
        volume == Some(mesh.volume)
    IN  IF MetricsFails(mesh, e) THEN FallbackMetrics(mesh)
        ELSE MeshMetrics(Len(mesh.faces), Len(mesh.vertices),
                         mesh.components, bbox_size, volume,
                         Some(mesh.surface_area))

(* _compute_metrics that never splits the mesh and reports one component *)
_compute_metrics_unsplit(mesh, e) ==
    LET bbox == Bounds(mesh)
        bbox_size == Sub(bbox.val[1][2], bbox.val[1][1])
        volume == IF mesh.is_watertight THEN Some(mesh.volume) ELSE None
    IN  IF MetricsFails(mesh, e) THEN FallbackMetrics(mesh)
        ELSE MeshMetrics(Len(mesh.faces), Len(mesh.vertices),
                         1, bbox_size, volume,
                         Some(mesh.surface_area))

_compute_metrics(mesh, e) ==
    LET bbox == Bounds(mesh)
        bbox_size == Sub(bbox.val[1][2], bbox.val[1][1])
        volume == IF mesh.is_watertight THEN Some(mesh.volume) ELSE None
    IN  IF MetricsFails(mesh, e) THEN FallbackMetrics(mesh)
        ELSE MeshMetrics(Len(mesh.faces), Len(mesh.vertices),
                         mesh.components, bbox_size, volume,
                         Some(mesh.surface_area))

(* the battery with the degenerate-face issue appended ahead of its turn *)
_run_validation_checks_reordered(mesh, e) ==
    LET \* one check: the issue it appends when it finds something
        Found(found, issue) == IF found THEN <<issue>> ELSE <<>>
        Counted(n, code, before, after) ==
            Found(n > 0, ValidationIssue(code,
                             before \o <<ToString(n)>> \o after, Some(n)))
        \* Watertightness check
        watertight ==
            Found(~mesh.is_watertight, ValidationIssue(
                "NOT_WATERTIGHT",
                <<"Mesh is not watertight (has open boundaries)">>,
                mesh.open_boundaries))
        \* Manifold check
        manifold ==
            Found(~mesh.is_winding_consistent, ValidationIssue(
                "NON_MANIFOLD", <<"Mesh has non-manifold edges">>, None))
        \* Self-intersection check, inside its own try/except
        TooThin(bounds) ==
            /\ ~bounds.raised
            /\ bounds.val # None
            /\ \E k \in 1..3 :
                   Sub(bounds.val[1][2], bounds.val[1][1])[k]
                       < BoundsExtentMin
        self_intersecting ==
            Found(TooThin(IF Fails(e, "c_bounds")
                              THEN Raise(<<"bounds failed">>)
                          ELSE Bounds(mesh)),
                  ValidationIssue(
                      "SELF_INTERSECTING",
                      <<"Mesh appears to have self-intersections or is extremely thin">>,
                      None))
        \* Multiple components check
        components ==
            Found(mesh.components > 1, ValidationIssue(
                "MULTIPLE_COMPONENTS",
                <<"Mesh has ", ToString(mesh.components),
                  " disconnected components">>,
                Some(mesh.components)))
        \* Degenerate faces check
        degenerate_faces ==
            Counted(Len(_find_degenerate_faces(mesh).val),
                    "DEGENERATE_FACES", <<"Found ">>,
                    <<" degenerate faces">>)
        \* Duplicate vertices check
        duplicate_vertices ==
            Counted(Len(_find_duplicate_vertices(mesh)),
                    "DUPLICATE_VERTICES", <<"Found ">>,
                    <<" duplicate vertices">>)
        \* Thin wall detection
        thin_regions ==
            Counted(Len(_detect_thin_walls(mesh, e)), "THIN_WALL",
                    <<"Detected ">>,
                    <<" regions with thickness < ", "0.5", "mm">>)
        \* the two lists, in the order of the appends
        errors == watertight \o degenerate_faces \o manifold
                      \o self_intersecting
        warnings == components \o duplicate_vertices \o thin_regions
    IN  IF ~mesh.has_faces
            THEN Raise(<<"object has no attribute 'is_watertight'">>)
        ELSE IF Fails(e, "c_is_watertight")
            THEN Raise(<<"is_watertight failed">>)
        ELSE IF Fails(e, "c_is_winding_consistent")
            THEN Raise(<<"is_winding_consistent failed">>)
        ELSE IF Fails(e, "c_split") THEN Raise(<<"split failed">>)
        ELSE IF _find_degenerate_faces(mesh).raised
            THEN Raise(_find_degenerate_faces(mesh).msg)
        ELSE Return(<<errors, warnings>>)

_run_validation_checks(mesh, e) ==
    LET \* one check: the issue it appends when it finds something
        Found(found, issue) == IF found THEN <<issue>> ELSE <<>>
        Counted(n, code, before, after) ==
            Found(n > 0, ValidationIssue(code,
                             before \o <<ToString(n)>> \o after, Some(n)))
        \* Watertightness check
        watertight ==
            Found(~mesh.is_watertight, ValidationIssue(
                "NOT_WATERTIGHT",
                <<"Mesh is not watertight (has open boundaries)">>,
                mesh.open_boundaries))
        \* Manifold check
        manifold ==
            Found(~mesh.is_winding_consistent, ValidationIssue(
                "NON_MANIFOLD", <<"Mesh has non-manifold edges">>, None))
        \* Self-intersection check, inside its own try/except
        TooThin(bounds) ==
            /\ ~bounds.raised
            /\ bounds.val # None
            /\ \E k \in 1..3 :
                   Sub(bounds.val[1][2], bounds.val[1][1])[k]
                       < BoundsExtentMin
        self_intersecting ==
            Found(TooThin(IF Fails(e, "c_bounds")
                              THEN Raise(<<"bounds failed">>)
                          ELSE Bounds(mesh)),
                  ValidationIssue(
                      "SELF_INTERSECTING",
                      <<"Mesh appears to have self-intersections or is extremely thin">>,
                      None))
        \* Multiple components check
        components ==
            Found(mesh.components > 1, ValidationIssue(
                "MULTIPLE_COMPONENTS",
                <<"Mesh has ", ToString(mesh.components),
                  " disconnected components">>,
                Some(mesh.components)))
        \* Degenerate faces check
        degenerate_faces ==
            Counted(Len(_find_degenerate_faces(mesh).val),
                    "DEGENERATE_FACES", <<"Found ">>,
                    <<" degenerate faces">>)
        \* Duplicate vertices check
        duplicate_vertices ==
            Counted(Len(_find_duplicate_vertices(mesh)),
                    "DUPLICATE_VERTICES", <<"Found ">>,
                    <<" duplicate vertices">>)
        \* Thin wall detection
        thin_regions ==
            Counted(Len(_detect_thin_walls(mesh, e)), "THIN_WALL",
                    <<"Detected ">>,
                    <<" regions with thickness < ", "0.5", "mm">>)
        \* the two lists, in the order of the appends
        errors == watertight \o manifold \o self_intersecting
                      \o degenerate_faces
        warnings == components \o duplicate_vertices \o thin_regions
    IN  IF ~mesh.has_faces
            THEN Raise(<<"object has no attribute 'is_watertight'">>)
        ELSE IF Fails(e, "c_is_watertight")
            THEN Raise(<<"is_watertight failed">>)
        ELSE IF Fails(e, "c_is_winding_consistent")
            THEN Raise(<<"is_winding_consistent failed">>)
        ELSE IF Fails(e, "c_split") THEN Raise(<<"split failed">>)
        ELSE IF _find_degenerate_faces(mesh).raised
            THEN Raise(_find_degenerate_faces(mesh).msg)
        ELSE Return(<<errors, warnings>>)

FailureReport(model_id, filename, msg) ==
    ValidationReport(model_id, filename,
        MeshMetrics(0, 0, 0, <<0, 0, 0>>, None, None),
        <<ValidationIssue("DEGENERATE_FACES",
                          <<"Failed to load mesh: ">> \o msg, None)>>,
        <<>>, BLOCK)

(* validate_mesh without its try/except *)
validate_mesh_uncaught(f, e) ==
    LET Assemble(metrics, errors, warnings) ==
            ValidationReport(e.uuid, f.filename, metrics, errors, warnings,
                             _determine_decision(errors, warnings))
        Checked(mesh, checks) ==
            IF checks.raised THEN Raise(checks.msg)
            ELSE Return(Assemble(_compute_metrics(mesh, e),
                                 checks.val[1], checks.val[2]))
        AfterLoad(loaded) ==
            IF loaded.raised THEN Raise(loaded.msg)
            ELSE Checked(loaded.val,
                         _run_validation_checks(loaded.val, e))
    IN  AfterLoad(_load_mesh(f))

validate_mesh(f, e) ==
    LET model_id == e.uuid
        \* the report of a run that got through the try block
        Assemble(metrics, errors, warnings) ==
            ValidationReport(model_id, f.filename, metrics, errors,
                             warnings,
                             _determine_decision(errors, warnings))
        \* after _compute_metrics and _run_validation_checks
        Checked(mesh, checks) ==
            IF checks.raised
                THEN Return(FailureReport(model_id, f.filename, checks.msg))
            ELSE Return(Assemble(_compute_metrics(mesh, e),
                                 checks.val[1], checks.val[2]))
        \* after _load_mesh
        AfterLoad(loaded) ==
            IF loaded.raised
                THEN Return(FailureReport(model_id, f.filename, loaded.msg))
            ELSE Checked(loaded.val,
                         _run_validation_checks(loaded.val, e))
    IN  AfterLoad(_load_mesh(f))

----------------------------------------------------------------------------
(* Inputs: the uploaded files, by what trimesh.load makes of them.  The    *)
(* validator never derives watertightness, winding consistency or the      *)
(* component split itself: the library's answers are part of the input.    *)
(* A mesh without faces is empty for the library: not watertight, not      *)
(* winding consistent, split into no components; a mesh with faces has at  *)
(* least one component.                                                    *)

O == <<0, 0, 0>>
N == <<0, 0, 5>>
D == <<10 * Mm, 10 * Mm, 10 * Mm>>
E == <<10 * Mm, 0, 0>>

(* O and N are 5e-7 mm apart; O, D, E span a 10 mm box *)
PointOrder == <<O, N, D, E>>

Mid == <<5 * Mm, 5 * Mm, 5 * Mm>>

SamplePoints == {O, Mid}

Triples == {<<1, 2, 3>>, <<1, 1, 2>>}

(* vertex arrays: grid points in the order of PointOrder, each at most once *)
VertexArrays ==
    {v \in SeqsUpTo(1..Len(PointOrder), MaxVerts) :
        \A i \in 1..(Len(v) - 1) : v[i] < v[i + 1]}

Vertices(v) == [i \in 1..Len(v) |-> PointOrder[v[i]]]

Meshes ==
    {m \in [has_vertices : {TRUE}, has_faces : {TRUE},
            vertices : {Vertices(v) : v \in VertexArrays},
            faces : SeqsUpTo(Triples, MaxFaces),
            is_watertight : BOOLEAN,
            is_winding_consistent : BOOLEAN,
            components : 0..MaxComponents,
            open_boundaries : {None, Some(1)},
            volume : {Mm}, surface_area : {Mm}] :
        /\ m.is_watertight => m.open_boundaries = None
        /\ m.faces = <<>> =>
               ~m.is_watertight /\ ~m.is_winding_consistent
                   /\ m.components = 0
        /\ m.faces # <<>> => m.components >= 1}

(* a loaded object without a vertices attribute *)
NoVertices ==
    [has_vertices |-> FALSE, has_faces |-> FALSE, vertices |-> <<>>,
     faces |-> <<>>, is_watertight |-> FALSE,
     is_winding_consistent |-> FALSE, components |-> 0,
     open_boundaries |-> None, volume |-> Mm, surface_area |-> Mm]

(* a point cloud: vertices, but no faces and no mesh predicates *)
PointClouds ==
    {[NoVertices EXCEPT !.has_vertices = TRUE, !.vertices = v] :
        v \in {<<O>>, <<O, D>>}}

SceneMeshes ==
    {m \in Meshes :
        /\ m.vertices \in {<<O>>, <<O, D>>, <<D, E>>}
        /\ m.faces = <<<<1, 1, 2>>>>
        /\ ~m.is_watertight /\ m.is_winding_consistent
        /\ m.components = 1 /\ m.open_boundaries = None}

SceneObjects == {NoVertices} \cup SceneMeshes

FileNames == {"model.stl"}

Files ==
    [load : {"raise"}, msg : {<<"not a valid mesh file">>},
     geometry : {<<>>}, filename : FileNames]
    \cup
    [load : {"mesh"}, msg : {<<>>},
     geometry : {<<m>> : m \in Meshes \cup PointClouds \cup {NoVertices}},
     filename : FileNames]
    \cup
    [load : {"scene"}, msg : {<<>>},
     geometry : SeqsUpTo(SceneObjects, MaxSceneGeometries),
     filename : FileNames]

(* The library calls that raise in a run.  The metrics stage stops at its  *)
(* first exception and the check battery at the first one it does not      *)
(* catch, so a run meets at most one metrics fault and no check fault      *)
(* after an uncaught one; the sampler returns points only when it is       *)
(* reached and does not raise.                                             *)
CheckFaultSets ==
    {{}, {"c_is_watertight"}, {"c_is_winding_consistent"},
     {"c_bounds"}, {"c_split"}, {"c_bounds", "c_split"},
     {"c_sample"}, {"c_bounds", "c_sample"}}

FaultSets ==
    {m \cup c : m \in {{}} \cup {{x} : x \in MetricFaults},
                c \in CheckFaultSets}

(* uuid is what uuid.uuid4() returns in the run: the n-th run gets n *)
Envs(n) ==
    {e \in [faults : FaultSets,
            samples : SeqsUpTo(SamplePoints, MaxSamples),
            uuid : {n}] :
        e.faults \cap (CheckFaults \ {"c_bounds"}) # {} => e.samples = <<>>}

NoEnv == [faults |-> {}, samples |-> <<>>, uuid |-> 0]

----------------------------------------------------------------------------
(* backend/main.py: the module-level state of the service *)

Tasks == {1, 2}

NoUpload == [filename |-> <<>>, size |-> None, content |-> <<>>]

(* a task that handles no request *)
Idle ==
    [state |-> "idle", kind |-> "none", upload |-> NoUpload, arg |-> 0,
     tmp |-> 0, env |-> NoEnv, status |-> 0, body |-> <<>>]

(* validator = MeshValidator(); reports_storage = {} *)
ServerAtRest ==
    /\ validator = MeshValidator
    /\ reports_storage = <<>>
    /\ tmp_files = {}
    /\ tasks = [t \in Tasks |-> Idle]
    /\ returned = <<>>
    /\ deleted = {}

----------------------------------------------------------------------------
(* One validation run *)

Init ==
    /\ file \in Files
    /\ env = NoEnv
    /\ result = Return(None)
    /\ pc = "idle"
    /\ dErrors = <<>>
    /\ dWarnings = <<>>
    /\ dDecision = ALLOW
    /\ ServerAtRest

Validate ==
    /\ pc = "idle"
    /\ \E e \in Envs(1) :
        /\ env' = e
        /\ result' = validate_mesh(file, e)
    /\ pc' = "done"
    /\ UNCHANGED <<file, dErrors, dWarnings, dDecision>>
    /\ UNCHANGED serverVars

Next == Validate

Spec == Init /\ [][Next]_vars

----------------------------------------------------------------------------
(* A second run on the same file.  The library fails at the same calls as  *)
(* in the first run; mesh.sample draws its points afresh.                  *)

Revalidate ==
    /\ pc = "done"
    /\ \E e \in Envs(2) :
        /\ e.faults = env.faults
        /\ env' = e
        /\ result' = validate_mesh(file, e)
    /\ pc' = "redone"
    /\ UNCHANGED <<file, dErrors, dWarnings, dDecision>>
    /\ UNCHANGED serverVars

NextRerun ==
    \/ Validate
    \/ Revalidate

SpecRerun == Init /\ [][NextRerun]_vars

----------------------------------------------------------------------------
(* A direct call of the Decision Aggregator, as tests/test_validator.py    *)
(* makes it: the lists are arbitrary issues, of either severity            *)

Issues ==
    [code : {"NOT_WATERTIGHT", "THIN_WALL"}, message : {<<"Test">>},
     severity : Severity, count : {None}, locations : {None}]

IssueLists == SeqsUpTo(Issues, MaxIssues)

InitDecision ==
    /\ file = [load |-> "raise", msg |-> <<"not a valid mesh file">>,
               geometry |-> <<>>, filename |-> "model.stl"]
    /\ env = NoEnv
    /\ result = Return(None)
    /\ pc = "call"
    /\ dErrors \in IssueLists
    /\ dWarnings \in IssueLists
    /\ dDecision = ALLOW
    /\ ServerAtRest

Decide ==
    /\ pc = "call"
    /\ dDecision' = _determine_decision(dErrors, dWarnings)
    /\ pc' = "decided"
    /\ UNCHANGED <<file, env, result, dErrors, dWarnings>>
    /\ UNCHANGED serverVars

NextDecision == Decide

SpecDecision == InitDecision /\ [][NextDecision]_vars


----------------------------------------------------------------------------
(* A run whose sampler returns more points than the probe looks at.  The   *)
(* mesh is closed, consistently wound and of one component, with the one   *)
(* face <<1, 2, 3>>: the thin-wall probe alone decides about warnings.     *)
(* The sampled points lie on vertex O or exactly thin_wall_threshold away  *)
(* from it.                                                                *)

Rim == <<thin_wall_threshold, 0, 0>>

ProbePoints == {O, Rim}

ProbeFiles ==
    {f \in Files :
        /\ f.load = "mesh"
        /\ f.geometry[1].has_faces
        /\ f.geometry[1].faces = <<<<1, 2, 3>>>>
        /\ f.geometry[1].is_watertight
        /\ f.geometry[1].is_winding_consistent
        /\ f.geometry[1].components = 1}

ProbeEnvs ==
    {[faults |-> {}, samples |-> s, uuid |-> 1] :
        s \in SeqsUpTo(ProbePoints, MaxProbeSamples)}
    \cup {[faults |-> {"c_sample"}, samples |-> <<>>, uuid |-> 1]}

InitProbe ==
    /\ file \in ProbeFiles
    /\ env = NoEnv
    /\ result = Return(None)
    /\ pc = "idle"
    /\ dErrors = <<>>
    /\ dWarnings = <<>>
    /\ dDecision = ALLOW
    /\ ServerAtRest

ValidateProbe ==
    /\ pc = "idle"
    /\ \E e \in ProbeEnvs :
        /\ env' = e
        /\ result' = validate_mesh(file, e)
    /\ pc' = "done"
    /\ UNCHANGED <<file, dErrors, dWarnings, dDecision>>
    /\ UNCHANGED serverVars

NextProbe == ValidateProbe

SpecProbe == InitProbe /\ [][NextProbe]_vars

----------------------------------------------------------------------------
(* Runs on meshes whose vertices crowd together: O, N and Q lie on a line, *)
(* O-N and N-Q closer than 1e-6 mm, O-Q farther; a vertex array may hold a *)
(* point more than once.                                                   *)

Q == <<0, 0, 12>>

CrowdedPoints == {O, N, Q, D}

CrowdedFiles ==
    {[load |-> "mesh", msg |-> <<>>,
      geometry |-> <<[has_vertices |-> TRUE, has_faces |-> TRUE,
                      vertices |-> v, faces |-> <<<<1, 2, 3>>>>,
                      is_watertight |-> TRUE,
                      is_winding_consistent |-> TRUE, components |-> 1,
                      open_boundaries |-> None, volume |-> Mm,
                      surface_area |-> Mm]>>,
      filename |-> "model.stl"] :
        v \in SeqsUpTo(CrowdedPoints, MaxVerts) \ {<<>>}}

InitCrowded ==
    /\ file \in CrowdedFiles
    /\ env = NoEnv
    /\ result = Return(None)
    /\ pc = "idle"
    /\ dErrors = <<>>
    /\ dWarnings = <<>>
    /\ dDecision = ALLOW
    /\ ServerAtRest

SpecCrowded == InitCrowded /\ [][Next]_vars

----------------------------------------------------------------------------
(* Runs on meshes with several faces around the area threshold.  With the  *)
(* vertices O, A, B, C the face <<1, 2, 3>> has area 0.5e-10 mm^2, the     *)
(* face <<1, 4, 3>> exactly 1e-10 mm^2, <<1, 1, 2>> none; <<2, 3, 5>>      *)
(* names a vertex the array does not have.                                 *)

A == <<100, 0, 0>>
B == <<0, 100, 0>>
C == <<200, 0, 0>>

SliverTriples == {<<1, 2, 3>>, <<1, 4, 3>>, <<1, 1, 2>>, <<2, 3, 5>>}

SliverFiles ==
    {[load |-> "mesh", msg |-> <<>>,
      geometry |-> <<[has_vertices |-> TRUE, has_faces |-> TRUE,
                      vertices |-> <<O, A, B, C>>, faces |-> f,
                      is_watertight |-> w,
                      is_winding_consistent |-> TRUE, components |-> 1,
                      open_boundaries |-> None, volume |-> Mm,
                      surface_area |-> Mm]>>,
      filename |-> "model.stl"] :
        f \in SeqsUpTo(SliverTriples, MaxSliverFaces) \ {<<>>},
        w \in BOOLEAN}

InitSliver ==
    /\ file \in SliverFiles
    /\ env = NoEnv
    /\ result = Return(None)
    /\ pc = "idle"
    /\ dErrors = <<>>
    /\ dWarnings = <<>>
    /\ dDecision = ALLOW
    /\ ServerAtRest

SpecSliver == InitSliver /\ [][Next]_vars

----------------------------------------------------------------------------
(* backend/main.py: the HTTP handlers.  The handlers are coroutines on one *)
(* event loop: a handler runs without interruption up to an await, and     *)
(* validate_model has one, at await file.read().  A task takes a request,  *)
(* answers it and is then free for the next one.                           *)
(*                                                                         *)
(* A file name is a sequence of characters.  A run draws its identifier    *)
(* from uuid.uuid4(): the n-th report returned carries identifier n.       *)

STL_UPPER == <<"m", ".", "S", "T", "L">>
TXT == <<"m", ".", "t", "x", "t">>
DOT_STL == <<".", "s", "t", "l">>

UploadNames == {STL_UPPER, TXT, DOT_STL}

(* str.lower(), on the characters used *)
LowerChar(c) ==
    CASE c = "S" -> "s"
      [] c = "T" -> "t"
      [] c = "L" -> "l"
      [] OTHER -> c

(* the name compared as it was typed *)
AsTyped(str) == str

Lower(str) == [i \in 1..Len(str) |-> LowerChar(str[i])]

(* os.path.splitext(p)[1] for a name without directory part: the text     *)
(* from the last dot on, empty when there is no dot or only leading dots   *)
SplitExt(p) ==
    LET dots == {i \in 1..Len(p) : p[i] = "."}
    IN  IF dots = {} THEN <<>>
        ELSE IF \E i \in 1..(SetMax(dots) - 1) : p[i] # "."
            THEN SubSeq(p, SetMax(dots), Len(p))
        ELSE <<>>

allowed_extensions ==
    {<<".", "s", "t", "l">>, <<".", "o", "b", "j">>, <<".", "p", "l", "y">>}

max_size == 100 * 1024 * 1024

(* what the uploaded bytes parse to: garbage, or a closed triangle *)
JunkFile ==
    [load |-> "raise", msg |-> <<"not a valid mesh file">>,
     geometry |-> <<>>, filename |-> "model.stl"]

TriangleFile ==
    [load |-> "mesh", msg |-> <<>>,
     geometry |-> <<[has_vertices |-> TRUE, has_faces |-> TRUE,
                     vertices |-> <<O, D, E>>, faces |-> <<<<1, 2, 3>>>>,
                     is_watertight |-> TRUE,
                     is_winding_consistent |-> TRUE, components |-> 1,
                     open_boundaries |-> None, volume |-> Mm,
                     surface_area |-> Mm]>>,
     filename |-> "model.stl"]

Uploads ==
    [filename : UploadNames,
     size : {None, Some(max_size), Some(max_size + 1)},
     content : {JunkFile, TriangleFile}]

(* the library raises nowhere; the sampler returns what it likes *)
ServerEnvs(n) == {e \in Envs(n) : e.faults = {}}

Ids == 1..(MaxRuns + 1)

Paths == Tasks

Free(t) == tasks[t].state \in {"idle", "answered"}

Reading == {t \in Tasks : tasks[t].state = "reading"}

(* the response of a handler: a returned value or an HTTPException *)
Answer(kind, upload, arg, status, body) ==
    [Idle EXCEPT !.state = "answered", !.kind = kind, !.upload = upload,
                 !.arg = arg, !.status = status, !.body = body]

(* every report stored under one and the same key *)
StoreKeyShared(report) == 1

(* reports_storage[report.model_id] = report *)
StoreKey(report) == report.model_id

(* validate_model up to await file.read(): the two checks, then the        *)
(* temporary file                                                          *)
ValidateReceive(t) ==
    /\ Free(t)
    /\ \E u \in Uploads :
        LET file_extension == Lower(SplitExt(u.filename))
        IN  IF file_extension \notin allowed_extensions
                THEN /\ tasks' = [tasks EXCEPT ![t] =
                            Answer("validate", u, 0, 400,
                                   <<"Unsupported file type">>)]
                     /\ UNCHANGED tmp_files
            ELSE IF u.size # None /\ u.size[1] # 0 /\ u.size[1] > max_size
                THEN /\ tasks' = [tasks EXCEPT ![t] =
                            Answer("validate", u, 0, 413,
                                   <<"File too large. Maximum size: 100MB">>)]
                     /\ UNCHANGED tmp_files
            ELSE /\ Len(returned) + Cardinality(Reading) < MaxRuns
                 /\ \E path \in Paths \ tmp_files :
                     /\ tmp_files' = tmp_files \cup {path}
                     /\ tasks' = [tasks EXCEPT ![t] =
                            [Idle EXCEPT !.state = "reading",
                                         !.kind = "validate",
                                         !.upload = u, !.tmp = path]]
    /\ UNCHANGED <<validator, reports_storage, returned, deleted>>
    /\ UNCHANGED coreVars

(* validate_model from the write of the content to the end: the run, the   *)
(* store, the response, and the unlink in the finally block.  escapes      *)
(* stands for an exception that crosses the call of validate_mesh.         *)
ValidateRun(t) ==
    /\ tasks[t].state = "reading"
    /\ \E e \in ServerEnvs(Len(returned) + 1), escapes \in BOOLEAN :
        LET u == tasks[t].upload
            Respond(run) ==
                IF ~run.raised
                    THEN /\ reports_storage' =
                                (StoreKey(run.val) :> run.val)
                                    @@ reports_storage
                         /\ returned' = Append(returned, run.val)
                         /\ tasks' = [tasks EXCEPT ![t] =
                                [Answer("validate", u, 0, 200, run.val)
                                    EXCEPT !.env = e]]
                ELSE /\ tasks' = [tasks EXCEPT ![t] =
                            Answer("validate", u, 0, 500,
                                   <<"Validation failed: ">> \o run.msg)]
                     /\ UNCHANGED <<reports_storage, returned>>
        IN  Respond(IF escapes THEN Raise(<<"out of memory">>)
                    ELSE validate_mesh(
                             [u.content EXCEPT !.filename = u.filename], e))
    /\ tmp_files' = tmp_files \ {tasks[t].tmp}
    /\ UNCHANGED <<validator, deleted>>
    /\ UNCHANGED coreVars

get_report(t) ==
    /\ Free(t)
    /\ \E model_id \in Ids :
        IF model_id \notin DOMAIN reports_storage
            THEN tasks' = [tasks EXCEPT ![t] =
                     Answer("get", NoUpload, model_id, 404,
                            <<"Report not found">>)]
        ELSE tasks' = [tasks EXCEPT ![t] =
                 Answer("get", NoUpload, model_id, 200,
                        reports_storage[model_id])]
    /\ UNCHANGED <<validator, reports_storage, tmp_files, returned, deleted>>
    /\ UNCHANGED coreVars

(* the listing follows the order of insertion, which is the order of the   *)
(* identifiers                                                             *)
list_reports(t) ==
    /\ Free(t)
    /\ LET Stored(model_id) == model_id \in DOMAIN reports_storage
           keys == SelectSeq([i \in Ids |-> i], Stored)
       IN  tasks' = [tasks EXCEPT ![t] =
               Answer("list", NoUpload, 0, 200,
                      [i \in 1..Len(keys) |->
                          [model_id |-> reports_storage[keys[i]].model_id,
                           filename |-> reports_storage[keys[i]].filename,
                           decision |-> reports_storage[keys[i]].decision]])]
    /\ UNCHANGED <<validator, reports_storage, tmp_files, returned, deleted>>
    /\ UNCHANGED coreVars

delete_report(t) ==
    /\ Free(t)
    /\ \E model_id \in Ids :
        IF model_id \notin DOMAIN reports_storage
            THEN /\ tasks' = [tasks EXCEPT ![t] =
                        Answer("delete", NoUpload, model_id, 404,
                               <<"Report not found">>)]
                 /\ UNCHANGED <<reports_storage, deleted>>
        ELSE /\ reports_storage' =
                    [k \in DOMAIN reports_storage \ {model_id} |->
                        reports_storage[k]]
             /\ deleted' = deleted \cup {model_id}
             /\ tasks' = [tasks EXCEPT ![t] =
                    Answer("delete", NoUpload, model_id, 200,
                           <<"Report deleted successfully">>)]
    /\ UNCHANGED <<validator, tmp_files, returned>>
    /\ UNCHANGED coreVars

InitServer ==
    /\ file = JunkFile
    /\ env = NoEnv
    /\ result = Return(None)
    /\ pc = "serving"
    /\ dErrors = <<>>
    /\ dWarnings = <<>>
    /\ dDecision = ALLOW
    /\ ServerAtRest

NextServer ==
    \E t \in Tasks :
        \/ ValidateReceive(t)
        \/ ValidateRun(t)
        \/ get_report(t)
        \/ list_reports(t)
        \/ delete_report(t)

SpecServer == InitServer /\ [][NextServer]_vars

(* uploads only: concurrent validation runs *)
NextUploads ==
    \E t \in Tasks :
        \/ ValidateReceive(t)
        \/ ValidateRun(t)

SpecUploads == InitServer /\ [][NextUploads]_vars

----------------------------------------------------------------------------
(* Claims *)

Report == result.val

SeveritiesOf(issues) == {issues[i].severity : i \in 1..Len(issues)}

IsPermutationOf(a, b) ==
    /\ Len(a) = Len(b)
    /\ \E p \in Permutations(1..Len(a)) : b = [i \in 1..Len(a) |-> a[p[i]]]

Loaded == _load_mesh(file)
Mesh == Loaded.val

IsIssue(x) ==
    /\ x.code \in ErrorCode
    /\ x.severity \in Severity
    /\ Len(x.message) > 0
    /\ Len(x.count) <= 1

WellFormed(r) ==
    /\ r.decision \in ValidationStatus
    /\ r.metrics.triangles \in Nat
    /\ r.metrics.vertices \in Nat
    /\ r.metrics.components \in Nat
    /\ Len(r.metrics.bbox_mm) = 3
    /\ \A i \in 1..Len(r.errors) : IsIssue(r.errors[i])
    /\ \A i \in 1..Len(r.warnings) : IsIssue(r.warnings[i])

(* some stage of the run met a failure: loading, a metrics computation, a *)
(* check of the battery                                                    *)
LoadFailed == Loaded.raised
MetricsFailed == ~Loaded.raised /\ MetricsFails(Mesh, env)
SwallowedCheckFailed ==
    /\ ~Loaded.raised
    /\ \/ Fails(env, "c_bounds")
       \/ Fails(env, "c_sample")
       \/ Mesh.has_faces /\ Bounds(Mesh).raised
ChecksAborted == ~Loaded.raised /\ _run_validation_checks(Mesh, env).raised

(* C2, as stated: whichever stage fails, validate_mesh returns a           *)
(* well-formed Report with decision BLOCK and a non-empty errors list.     *)
C2_AsStated ==
    pc = "done" /\ (LoadFailed \/ MetricsFailed \/ SwallowedCheckFailed
                      \/ ChecksAborted) =>
        /\ ~result.raised
        /\ WellFormed(Report)
        /\ Report.decision = BLOCK
        /\ Report.errors # <<>>

(* C2, amended: validate_mesh returns a well-formed Report for every input *)
(* and never raises; when loading fails or a failure leaves the check      *)
(* battery, the Report has decision BLOCK and a non-empty errors list.     *)
(* (A failure absorbed inside the Metrics Computer, the self-intersection  *)
(* proxy or the thin-wall probe does not end the run.)                     *)
C2_NeverRaises ==
    pc = "done" =>
        /\ ~result.raised
        /\ WellFormed(Report)
        /\ LoadFailed \/ ChecksAborted =>
               Report.decision = BLOCK /\ Report.errors # <<>>

(* a check of the battery raised on a loaded mesh and the run still ended  *)
(* in a BLOCK report                                                       *)
C2_Witness ==
    /\ pc = "done"
    /\ ~LoadFailed
    /\ Fails(env, "c_split")
    /\ ~result.raised
    /\ Report.decision = BLOCK
    /\ Len(Report.errors) = 1

(* the unparseable or empty inputs of C3, read off the file *)
Unparseable(f) ==
    \/ f.load = "raise"
    \/ \A i \in 1..Len(f.geometry) : Len(f.geometry[i].vertices) = 0

FailureText(f) ==
    IF f.load = "raise" THEN f.msg[Len(f.msg)]
    ELSE IF f.load = "scene"
            /\ \A i \in 1..Len(f.geometry) : ~f.geometry[i].has_vertices
        THEN "No valid meshes found in scene"
    ELSE "Empty or invalid mesh"

(* C3: an input that cannot be parsed, or parses to zero vertices, gives   *)
(* zero metrics, exactly one DEGENERATE_FACES error carrying the failure   *)
(* text, no warnings and decision BLOCK.                                   *)
C3_InputFailure ==
    pc = "done" /\ Unparseable(file) =>
        /\ ~result.raised
        /\ Report.metrics.triangles = 0
        /\ Report.metrics.vertices = 0
        /\ Report.metrics.components = 0
        /\ Report.metrics.bbox_mm = <<0, 0, 0>>
        /\ Len(Report.errors) = 1
        /\ Report.errors[1].code = "DEGENERATE_FACES"
        /\ Report.errors[1].message[Len(Report.errors[1].message)]
               = FailureText(file)
        /\ Report.warnings = <<>>
        /\ Report.decision = BLOCK

(* a file that parses to a mesh object with an empty vertex array *)
C3_Witness ==
    /\ pc = "done"
    /\ file.load = "mesh"
    /\ file.geometry[1].has_vertices
    /\ Len(file.geometry[1].vertices) = 0
    /\ file.geometry[1].is_watertight
    /\ Report.decision = BLOCK
    /\ Report.metrics.vertices = 0

Checks == _run_validation_checks(Mesh, env)

HasCode(issues, code) == \E i \in 1..Len(issues) : issues[i].code = code

(* a valid Mesh Model: a mesh object whose face indices are all in range *)
ValidModel(m) == m.has_vertices /\ m.has_faces /\ IndicesInRange(m)

NoNearDuplicates(m) ==
    \A i \in 1..Len(m.vertices) : \A j \in (i + 1)..Len(m.vertices) :
        ~NormLess(Sub(m.vertices[i], m.vertices[j]), DuplicateDistance)

NoZeroAreaFaces(m) ==
    \A i \in 1..Len(m.faces) :
        ~AreaBelowThreshold(m.vertices[m.faces[i][1]],
                            m.vertices[m.faces[i][2]],
                            m.vertices[m.faces[i][3]])

(* C4, as stated: a valid watertight, winding-consistent, single-component *)
(* mesh with no near-duplicate vertices and no zero-area faces is decided  *)
(* ALLOW with no errors, whatever the sampler returns (here even only in   *)
(* runs where no library call raises).                                     *)
C4_AsStated ==
    /\ pc = "done" /\ ~LoadFailed /\ env.faults = {}
    /\ ValidModel(Mesh) /\ Mesh.faces # <<>>
    /\ Mesh.is_watertight /\ Mesh.is_winding_consistent
    /\ Mesh.components = 1
    /\ NoNearDuplicates(Mesh) /\ NoZeroAreaFaces(Mesh)
    => Report.decision = ALLOW /\ Report.errors = <<>>

(* C5, as stated: a mesh that is not watertight gets NOT_WATERTIGHT among  *)
(* its errors and decision BLOCK, whatever the later checks do.            *)
C5_AsStated ==
    /\ pc = "done" /\ ~LoadFailed /\ ValidModel(Mesh) /\ Mesh.faces # <<>>
    /\ ~Fails(env, "c_is_watertight")
    /\ ~Mesh.is_watertight
    => HasCode(Report.errors, "NOT_WATERTIGHT") /\ Report.decision = BLOCK

(* C6, as stated: a mesh the library splits into k > 1 components gets a   *)
(* MULTIPLE_COMPONENTS warning with count k, and decision                  *)
(* ALLOW_WITH_WARNINGS when there is no error; a mesh of one component     *)
(* gets no such warning.                                                   *)
C6_AsStated ==
    /\ pc = "done" /\ ~LoadFailed /\ ValidModel(Mesh)
    /\ ~Fails(env, "c_split")
    => /\ Mesh.components > 1 =>
            /\ \E i \in 1..Len(Report.warnings) :
                   /\ Report.warnings[i].code = "MULTIPLE_COMPONENTS"
                   /\ Report.warnings[i].count = Some(Mesh.components)
            /\ Report.errors = <<>> =>
                   Report.decision = ALLOW_WITH_WARNINGS
       /\ Mesh.components = 1 =>
            ~HasCode(Report.warnings, "MULTIPLE_COMPONENTS")

SameOutcome(r1, r2) ==
    /\ r1.metrics = r2.metrics
    /\ r1.errors = r2.errors
    /\ r1.warnings = r2.warnings
    /\ r1.decision = r2.decision

(* C7, as stated: a second run on the same file yields the same metrics,   *)
(* errors, warnings and decision as the first.                             *)
C7_AsStated ==
    [][pc = "done" /\ pc' = "redone" => SameOutcome(result.val, result'.val)]_vars

(* the check whose library call each fault belongs to *)
CodeOfFault(site) ==
    CASE site = "c_is_watertight" -> "NOT_WATERTIGHT"
      [] site = "c_is_winding_consistent" -> "NON_MANIFOLD"
      [] site = "c_bounds" -> "SELF_INTERSECTING"
      [] site = "c_split" -> "MULTIPLE_COMPONENTS"
      [] site = "c_sample" -> "THIN_WALL"

FailedCodes == {CodeOfFault(site) : site \in env.faults \cap CheckFaults}

(* the issues of the checks that did not fail *)
OtherIssues(issues) ==
    LET Kept(x) == x.code \notin FailedCodes
    IN  SelectSeq(issues, Kept)

FaultFree == [env EXCEPT !.faults = @ \ CheckFaults]

(* C8, as stated: a failure inside one check makes that check contribute   *)
(* nothing and leaves the issues of the other checks and the computed      *)
(* metrics in the Report.                                                  *)
C8_AsStated ==
    /\ pc = "done" /\ ~LoadFailed /\ ValidModel(Mesh) /\ Mesh.faces # <<>>
    /\ env.faults \cap CheckFaults # {}
    => /\ Report.metrics = _compute_metrics(Mesh, env)
       /\ Report.errors =
              OtherIssues(_run_validation_checks(Mesh, FaultFree).val[1])
       /\ Report.warnings =
              OtherIssues(_run_validation_checks(Mesh, FaultFree).val[2])

(* C9: when a sub-computation of the Metrics Computer fails, the stage     *)
(* returns the true triangle and vertex counts, components = 1, a zero     *)
(* bounding box and no volume or surface area; the run goes on to the      *)
(* checks, and unless they abort it the Report carries these metrics and   *)
(* the decision the checks' issues give.                                   *)
C9_MetricsFallback ==
    pc = "done" /\ MetricsFailed /\ Mesh.has_faces =>
        LET m == _compute_metrics(Mesh, env)
        IN  /\ m.triangles = Len(Mesh.faces)
            /\ m.vertices = Len(Mesh.vertices)
            /\ m.components = 1
            /\ m.bbox_mm = <<0, 0, 0>>
            /\ m.volume_mm3 = None
            /\ m.surface_area_mm2 = None
            /\ ~result.raised
            /\ ~ChecksAborted =>
                   /\ Report.metrics = m
                   /\ Report.errors = Checks.val[1]
                   /\ Report.warnings = Checks.val[2]
                   /\ Report.decision = BLOCK <=> Checks.val[1] # <<>>
                   /\ Report.decision = ALLOW <=>
                          Checks.val[1] = <<>> /\ Checks.val[2] = <<>>

(* the component split fails in the metrics stage of a two-component mesh: *)
(* the metrics say one component, the checks still run and warn            *)
C9_Witness ==
    /\ pc = "done"
    /\ Fails(env, "m_split")
    /\ ~LoadFailed
    /\ Mesh.components = 2
    /\ Len(Mesh.faces) > 0
    /\ Report.metrics.components = 1
    /\ Report.metrics.triangles = Len(Mesh.faces)
    /\ HasCode(Report.warnings, "MULTIPLE_COMPONENTS")
    /\ Report.decision = ALLOW_WITH_WARNINGS

WarningCodes == {"MULTIPLE_COMPONENTS", "DUPLICATE_VERTICES", "THIN_WALL"}

ErrorCodes ==
    {"NOT_WATERTIGHT", "NON_MANIFOLD", "SELF_INTERSECTING",
     "DEGENERATE_FACES"}

(* C10, as stated: every issue of a warning-class check has severity       *)
(* "warning", every issue of an error-class check has severity "error".    *)
C10_AsStated ==
    pc = "done" =>
        /\ \A i \in 1..Len(Report.warnings) :
               /\ Report.warnings[i].code \in WarningCodes
               /\ Report.warnings[i].severity = "warning"
        /\ \A i \in 1..Len(Report.errors) :
               /\ Report.errors[i].code \in ErrorCodes
               /\ Report.errors[i].severity = "error"

(* C11: metrics.volume is present only for a watertight mesh whose metrics *)
(* were all computed, and is then mesh.volume; it is absent whenever       *)
(* errors contains NOT_WATERTIGHT and whenever the run took a failure      *)
(* path (load failure, aborted checks, metrics fallback).                  *)
C11_VolumeOnlyWatertight ==
    pc = "done" =>
        /\ Report.metrics.volume_mm3 # None =>
               /\ ~LoadFailed
               /\ Mesh.is_watertight
               /\ Report.metrics.volume_mm3 = Some(Mesh.volume)
        /\ HasCode(Report.errors, "NOT_WATERTIGHT") =>
               Report.metrics.volume_mm3 = None
        /\ LoadFailed \/ ChecksAborted \/ MetricsFailed =>
               Report.metrics.volume_mm3 = None
        /\ ~LoadFailed /\ ~Mesh.is_watertight =>
               Report.metrics.volume_mm3 = None

(* an open mesh whose metrics were all computed: a bounding box and a      *)
(* surface area are reported, a volume is not                              *)
C11_Witness ==
    /\ pc = "done"
    /\ ~LoadFailed /\ ~MetricsFailed /\ ~ChecksAborted
    /\ ~Mesh.is_watertight
    /\ HasCode(Report.errors, "NOT_WATERTIGHT")
    /\ Report.metrics.surface_area_mm2 = Some(Mesh.surface_area)
    /\ Report.metrics.volume_mm3 = None

(* the sampled points the probe evaluates, and those of them that have a   *)
(* vertex of m closer than the threshold                                   *)
Evaluated(samples) == SubSeq(samples, 1, Min2(10, Len(samples)))

ThinIndices(m, points) ==
    {i \in 1..Len(points) :
        \E k \in 1..Len(m.vertices) :
            NormLess(Sub(m.vertices[k], points[i]), thin_wall_threshold)}

IssuesWithCode(issues, code) ==
    LET Coded(x) == x.code = code
    IN  SelectSeq(issues, Coded)

(* C12: only the first 10 sampled points are evaluated; in a run whose     *)
(* battery reaches the probe, a THIN_WALL warning is emitted iff one of    *)
(* them has a mesh vertex closer than 0.5 mm, and its count is the number  *)
(* of such points (1..10); a failing or empty sampling emits no THIN_WALL  *)
(* and the run goes on to its Report; a run that never samples emits none. *)
C12_ThinWallProbe ==
    pc = "done" /\ ~LoadFailed =>
        LET n == Cardinality(ThinIndices(Mesh, Evaluated(env.samples)))
            emitted == IssuesWithCode(Report.warnings, "THIN_WALL")
            aborted == ChecksAborted
        IN  /\ ~aborted =>
                /\ emitted # <<>> <=> n >= 1
                /\ Len(emitted) <= 1
                /\ emitted # <<>> =>
                       emitted[1].count = Some(n) /\ n \in 1..10
                /\ Report.metrics.vertices = Len(Mesh.vertices)
                /\ ~HasCode(Report.errors, "DEGENERATE_FACES")
            /\ Fails(env, "c_sample") \/ env.samples = <<>> =>
                   emitted = <<>>
            /\ aborted => emitted = <<>>
            /\ ~HasCode(Report.errors, "THIN_WALL")

(* eleven points sampled, all of them on a vertex: ten are counted *)
C12_Witness ==
    /\ pc = "done"
    /\ ~LoadFailed /\ ~ChecksAborted
    /\ Len(env.samples) = 11
    /\ Cardinality(ThinIndices(Mesh, env.samples)) = 11
    /\ \E i \in 1..Len(Report.warnings) :
           /\ Report.warnings[i].code = "THIN_WALL"
           /\ Report.warnings[i].count = Some(10)

(* vertices i and j of m lie within 1e-6 mm of each other *)
Close(m, i, j) == NormLess(Sub(m.vertices[i], m.vertices[j]), 10)

HasLaterClose(m) ==
    {i \in 1..Len(m.vertices) :
        \E j \in (i + 1)..Len(m.vertices) : Close(m, i, j)}

(* C13: in a run whose battery reaches the duplicate-vertex check, a       *)
(* DUPLICATE_VERTICES warning is emitted iff two distinct vertex indices   *)
(* lie within 1e-6 of each other; its count is the number of indices with  *)
(* a later index within the distance, each counted once, and lies between  *)
(* 1 and the number of vertices minus 1.                                   *)
C13_DuplicateVertices ==
    pc = "done" /\ ~LoadFailed =>
        LET emitted == IssuesWithCode(Report.warnings, "DUPLICATE_VERTICES")
            n == Cardinality(HasLaterClose(Mesh))
            aborted == ChecksAborted
        IN  /\ ~aborted =>
                /\ emitted # <<>> <=>
                       \E i, j \in 1..Len(Mesh.vertices) :
                           i # j /\ Close(Mesh, i, j)
                /\ Len(emitted) <= 1
                /\ emitted # <<>> =>
                       /\ emitted[1].count = Some(n)
                       /\ n >= 1
                       /\ n <= Len(Mesh.vertices) - 1
            /\ aborted => emitted = <<>>
            /\ ~HasCode(Report.errors, "DUPLICATE_VERTICES")

(* the first vertex is close to both later ones, which are not close to    *)
(* each other: it is counted once                                          *)
C13_Witness ==
    /\ pc = "done"
    /\ ~LoadFailed /\ ~ChecksAborted
    /\ Len(Mesh.vertices) = 3
    /\ Close(Mesh, 1, 2) /\ Close(Mesh, 1, 3) /\ ~Close(Mesh, 2, 3)
    /\ \E i \in 1..Len(Report.warnings) :
           /\ Report.warnings[i].code = "DUPLICATE_VERTICES"
           /\ Report.warnings[i].count = Some(1)

(* twice the area of face i of m, squared, is below (2 * 1e-10 mm^2)^2;    *)
(* for the coordinates used (below 1000 units) the products need no split  *)
CrossOf(a, b) ==
    <<a[2] * b[3] - a[3] * b[2], a[3] * b[1] - a[1] * b[3],
      a[1] * b[2] - a[2] * b[1]>>

SmallFaces(m) ==
    {i \in 1..Len(m.faces) :
        LET v0 == m.vertices[m.faces[i][1]]
            v1 == m.vertices[m.faces[i][2]]
            v2 == m.vertices[m.faces[i][3]]
            c == CrossOf(Sub(v1, v0), Sub(v2, v0))
        IN  c[1] * c[1] + c[2] * c[2] + c[3] * c[3]
                < 4 * 10000 * 10000}

(* C14: in a run whose battery reaches the degenerate-face check, a        *)
(* DEGENERATE_FACES error is emitted by the Check Engine iff some triangle *)
(* has area below 1e-10, and its count is the number of such triangles;    *)
(* every run on a loaded mesh with such a triangle is decided BLOCK.       *)
C14_DegenerateFaces ==
    pc = "done" /\ ~LoadFailed /\ IndicesInRange(Mesh) =>
        LET emitted == IssuesWithCode(Report.errors, "DEGENERATE_FACES")
            n == Cardinality(SmallFaces(Mesh))
            aborted == ChecksAborted
        IN  /\ ~aborted =>
                /\ emitted # <<>> <=> n >= 1
                /\ Len(emitted) <= 1
                /\ emitted # <<>> => emitted[1].count = Some(n)
            /\ n >= 1 => Report.decision = BLOCK
            /\ ~HasCode(Report.warnings, "DEGENERATE_FACES")

(* two faces below the threshold, one of them with a non-zero area *)
C14_Witness ==
    /\ pc = "done"
    /\ ~LoadFailed /\ IndicesInRange(Mesh) /\ ~ChecksAborted
    /\ Mesh.faces = <<<<1, 2, 3>>, <<1, 1, 2>>>>
    /\ env.faults = {}
    /\ IssuesWithCode(Report.errors, "DEGENERATE_FACES") =
           <<ValidationIssue("DEGENERATE_FACES",
                             <<"Found ", "2", " degenerate faces">>,
                             Some(2))>>
    /\ Report.decision = BLOCK

(* the extent of m's bounding box along axis k: m has faces and they name  *)
(* vertices of the array                                                   *)
Extent(m, k) ==
    LET coords == {m.vertices[m.faces[i][j]][k] :
                       i \in 1..Len(m.faces), j \in 1..3}
    IN  SetMax(coords) - SetMin(coords)

FlatBox(m) ==
    /\ m.faces # <<>>
    /\ IndicesInRange(m)
    /\ \E k \in 1..3 : Extent(m, k) < 10

(* C15: in a run whose battery runs through, a SELF_INTERSECTING error,    *)
(* without count, is emitted iff the bounds were computed and the          *)
(* bounding-box extent is below 1e-6 on some axis, whatever the triangles  *)
(* are; when computing the bounds fails the check contributes nothing and  *)
(* the other checks' issues stay.                                          *)
C15_SelfIntersectionProxy ==
    pc = "done" /\ ~LoadFailed =>
        LET emitted == IssuesWithCode(Report.errors, "SELF_INTERSECTING")
            aborted == ChecksAborted
            Others(issues) ==
                LET Other(x) == x.code # "SELF_INTERSECTING"
                IN  SelectSeq(issues, Other)
            unfailing == [env EXCEPT !.faults = @ \ {"c_bounds"}]
        IN  /\ ~aborted =>
                /\ emitted # <<>> <=>
                       ~Fails(env, "c_bounds") /\ FlatBox(Mesh)
                /\ Len(emitted) <= 1
                /\ emitted # <<>> => emitted[1].count = None
                /\ Fails(env, "c_bounds") =>
                       /\ emitted = <<>>
                       /\ Report.errors =
                              Others(_run_validation_checks(
                                         Mesh, unfailing).val[1])
                       /\ Report.warnings =
                              _run_validation_checks(Mesh, unfailing).val[2]
            /\ aborted => emitted = <<>>
            /\ ~HasCode(Report.warnings, "SELF_INTERSECTING")

(* a closed mesh whose face spans no more than 5e-7 mm, beside a far       *)
(* vertex no face uses                                                     *)
C15_Witness ==
    /\ pc = "done"
    /\ ~LoadFailed /\ ~ChecksAborted
    /\ Mesh.vertices = <<O, N, D>>
    /\ Mesh.faces = <<<<1, 1, 2>>>>
    /\ Mesh.is_watertight /\ Mesh.is_winding_consistent
    /\ HasCode(Report.errors, "SELF_INTERSECTING")
    /\ Report.decision = BLOCK

(* the file a task's upload is validated as *)
Uploaded(t) ==
    [tasks[t].upload.content EXCEPT !.filename = tasks[t].upload.filename]

Succeeded(t) ==
    /\ tasks[t].state = "answered"
    /\ tasks[t].kind = "validate"
    /\ tasks[t].status = 200

(* what the upload of task t can produce in a run of its own *)
AloneOutcomes(t) ==
    {validate_mesh(Uploaded(t), e).val : e \in ServerEnvs(1)}

StoreHoldsReturned ==
    /\ \A i \in 1..Len(returned) :
           /\ returned[i].model_id \in DOMAIN reports_storage
           /\ reports_storage[returned[i].model_id] = returned[i]
    /\ \A i, j \in 1..Len(returned) :
           i # j => returned[i].model_id # returned[j].model_id
    /\ Cardinality(DOMAIN reports_storage) = Len(returned)

ErrorOrder ==
    <<"NOT_WATERTIGHT", "NON_MANIFOLD", "SELF_INTERSECTING",
      "DEGENERATE_FACES">>

WarningOrder == <<"MULTIPLE_COMPONENTS", "DUPLICATE_VERTICES", "THIN_WALL">>

(* the codes of issues are those of order, each at most once, in order *)
IsSubsequenceByCode(issues, order) ==
    \E pos \in [1..Len(issues) -> 1..Len(order)] :
        /\ \A i \in 1..Len(issues) : issues[i].code = order[pos[i]]
        /\ \A i \in 1..(Len(issues) - 1) : pos[i] < pos[i + 1]

(* C17: in every Report, errors is a subsequence (by code) of              *)
(* NOT_WATERTIGHT, NON_MANIFOLD, SELF_INTERSECTING, DEGENERATE_FACES and   *)
(* warnings one of MULTIPLE_COMPONENTS, DUPLICATE_VERTICES, THIN_WALL: no  *)
(* code twice, none in both lists, INVERTED_NORMALS nowhere.               *)
C17_IssueOrder ==
    pc = "done" =>
        /\ IsSubsequenceByCode(Report.errors, ErrorOrder)
        /\ IsSubsequenceByCode(Report.warnings, WarningOrder)
        /\ \A i \in 1..Len(Report.errors), j \in 1..Len(Report.warnings) :
               Report.errors[i].code # Report.warnings[j].code
        /\ ~HasCode(Report.errors, "INVERTED_NORMALS")
        /\ ~HasCode(Report.warnings, "INVERTED_NORMALS")

(* a run in which every check of the battery finds something *)
C17_Witness ==
    /\ pc = "done"
    /\ ~LoadFailed /\ ~ChecksAborted
    /\ Len(Report.errors) = 4
    /\ Len(Report.warnings) = 3
    /\ Report.errors[4].code = "DEGENERATE_FACES"
    /\ Report.warnings[3].code = "THIN_WALL"

ComponentsWarned(r) == IssuesWithCode(r.warnings, "MULTIPLE_COMPONENTS")

(* the warning is there iff the metrics count more than one component,     *)
(* with that count                                                         *)
ComponentsAgree(r) ==
    /\ ComponentsWarned(r) # <<>> <=> r.metrics.components > 1
    /\ ComponentsWarned(r) # <<>> =>
           ComponentsWarned(r)[1].count = Some(r.metrics.components)

(* C18, as stated: in every Report, warnings contains MULTIPLE_COMPONENTS  *)
(* iff metrics.components > 1, with count = metrics.components, also when  *)
(* the Metrics Computer took its fallback path.                            *)
C18_AsStated == pc = "done" => ComponentsAgree(Report)

(* C18, amended: the agreement holds in every Report whose metrics do not  *)
(* come from the fallback of the Metrics Computer; in a Report whose       *)
(* metrics come from the fallback, metrics.components is 1 while the       *)
(* warning follows the component count of the mesh.                        *)
C18_ComponentsAgree ==
    pc = "done" =>
        IF MetricsFailed /\ ~ChecksAborted
            THEN /\ Report.metrics.components = 1
                 /\ ComponentsWarned(Report) # <<>> <=> Mesh.components > 1
                 /\ ComponentsWarned(Report) # <<>> =>
                        ComponentsWarned(Report)[1].count
                            = Some(Mesh.components)
        ELSE ComponentsAgree(Report)

(* every metric computed for a mesh of two components: the metrics and the *)
(* warning both say two                                                    *)
C18_Witness ==
    /\ pc = "done"
    /\ ~LoadFailed /\ ~MetricsFailed /\ ~ChecksAborted
    /\ Report.metrics.components = 2
    /\ ComponentsWarned(Report) # <<>>
    /\ ComponentsWarned(Report)[1].count = Some(2)

(* the ids of the reports /validate has returned and DELETE has not        *)
(* removed since, and the report returned under an id                      *)
LiveIds == {returned[i].model_id : i \in 1..Len(returned)} \ deleted

ReturnedAs(model_id) ==
    returned[CHOOSE i \in 1..Len(returned) : returned[i].model_id = model_id]

(* task t answers a request of the given kind in this step *)
Answers(t, kind) ==
    /\ tasks'[t] # tasks[t]
    /\ tasks'[t].state = "answered"
    /\ tasks'[t].kind = kind

(* C19: GET /report/{id} returns a report iff id is the model_id of a      *)
(* report an earlier /validate returned and no DELETE removed since, and   *)
(* it returns exactly that report, stored under its model_id; GET and      *)
(* DELETE on any other id answer 404 and leave the store unchanged; GET    *)
(* and the listing never change the store.                                 *)
C19_StoreLifecycle ==
    [][\A t \in Tasks :
        /\ Answers(t, "get") =>
               /\ tasks'[t].status = 200 <=> tasks'[t].arg \in LiveIds
               /\ tasks'[t].status = 200 =>
                      /\ tasks'[t].body = ReturnedAs(tasks'[t].arg)
                      /\ tasks'[t].body.model_id = tasks'[t].arg
               /\ tasks'[t].status # 200 => tasks'[t].status = 404
               /\ reports_storage' = reports_storage
        /\ Answers(t, "delete") =>
               /\ tasks'[t].status = 200 <=> tasks'[t].arg \in LiveIds
               /\ tasks'[t].status # 200 =>
                      /\ tasks'[t].status = 404
                      /\ reports_storage' = reports_storage
               /\ tasks'[t].status = 200 =>
                      /\ tasks'[t].arg \notin DOMAIN reports_storage'
                      /\ \A k \in DOMAIN reports_storage \ {tasks'[t].arg} :
                             /\ k \in DOMAIN reports_storage'
                             /\ reports_storage'[k] = reports_storage[k]
        /\ Answers(t, "list") => reports_storage' = reports_storage
        /\ \A k \in DOMAIN reports_storage' :
               reports_storage'[k].model_id = k
    ]_vars

(* two reports were returned, the first has been deleted: GET finds the    *)
(* second and not the first                                                *)
C19_Witness ==
    /\ Len(returned) = 2
    /\ deleted = {returned[1].model_id}
    /\ tasks[1].state = "answered" /\ tasks[1].kind = "get"
    /\ tasks[1].arg = returned[2].model_id
    /\ tasks[1].status = 200 /\ tasks[1].body = returned[2]
    /\ tasks[2].state = "answered" /\ tasks[2].kind = "get"
    /\ tasks[2].arg = returned[1].model_id
    /\ tasks[2].status = 404

(* the name ends, whatever the case of its letters, in .stl, .obj or .ply  *)
(* after at least one other character                                      *)
CapitalOf ==
    [c \in {"s", "t", "l", "o", "b", "j", "p", "y"} |->
        CASE c = "s" -> "S" [] c = "t" -> "T" [] c = "l" -> "L"
          [] c = "o" -> "O" [] c = "b" -> "B" [] c = "j" -> "J"
          [] c = "p" -> "P" [] c = "y" -> "Y"]

HasMeshExtension(name) ==
    \E ext \in {<<".", "s", "t", "l">>, <<".", "o", "b", "j">>,
                <<".", "p", "l", "y">>} :
        /\ Len(name) > Len(ext)
        /\ \A i \in 1..Len(ext) :
               LET c == name[Len(name) - Len(ext) + i]
               IN  \/ c = ext[i]
                   \/ ext[i] \in DOMAIN CapitalOf /\ c = CapitalOf[ext[i]]

(* the declared size is above 100 MB *)
Oversized(u) == u.size # None /\ u.size[1] > 100 * 1024 * 1024

(* C20: an upload whose extension is not .stl, .obj or .ply (in any case)  *)
(* is answered 400, one declared above 100 MB is answered 413; neither     *)
(* invokes the validator, creates a temporary file or changes the store;   *)
(* no other upload is rejected so.  The temporary file of an accepted      *)
(* upload exists until its run ends and is gone after it, whether the run  *)
(* returned a report (200) or raised (500).                                *)
C20_RejectionAndCleanup ==
    [][\A t \in Tasks :
        /\ Answers(t, "validate") /\ tasks[t].state # "reading" =>
               /\ tasks'[t].status = 400 <=>
                      ~HasMeshExtension(tasks'[t].upload.filename)
               /\ tasks'[t].status = 413 <=>
                      /\ HasMeshExtension(tasks'[t].upload.filename)
                      /\ Oversized(tasks'[t].upload)
               /\ tasks'[t].status \in {400, 413}
               /\ tasks'[t].env = NoEnv
               /\ returned' = returned
               /\ tmp_files' = tmp_files
               /\ reports_storage' = reports_storage
        /\ tasks[t].state # "reading" /\ tasks'[t].state = "reading" =>
               /\ HasMeshExtension(tasks'[t].upload.filename)
               /\ ~Oversized(tasks'[t].upload)
               /\ tasks'[t].tmp \in tmp_files' \ tmp_files
        /\ tasks[t].state = "reading" /\ tasks'[t].state # "reading" =>
               /\ tasks'[t].status \in {200, 500}
               /\ tasks[t].tmp \in tmp_files
               /\ tmp_files' = tmp_files \ {tasks[t].tmp}
               /\ tasks'[t].status = 500 =>
                      reports_storage' = reports_storage
        /\ tmp_files' = {tasks'[r].tmp : r \in {x \in Tasks :
                                                   tasks'[x].state = "reading"}}
    ]_vars

(* one upload rejected for its size and one whose run raised: no           *)
(* temporary file is left and nothing is stored                            *)
C20_Witness ==
    /\ tasks[1].state = "answered" /\ tasks[1].kind = "validate"
    /\ tasks[1].status = 500
    /\ tasks[2].state = "answered" /\ tasks[2].kind = "validate"
    /\ tasks[2].status = 413
    /\ tasks[2].upload.filename = STL_UPPER
    /\ tmp_files = {}
    /\ reports_storage = <<>>

====
